---------------------------- MODULE Spec2Model ----------------------------
(***************************************************************************)
(* Model of mlat/beastframes.py: synthesis of 14-byte Mode S Extended      *)
(* Squitter frames (position pair, altitude-only, velocity).               *)
(*                                                                         *)
(* Number representation.  The Python code works on floats; the model      *)
(* carries every real quantity as an integer in a fixed unit, so that the  *)
(* arithmetic of the code is reproduced exactly:                           *)
(*   altitude        half feet          (1012.5 ft = 2025)                 *)
(*   velocity        half knots         (1021.5 kt = 2043)                 *)
(*   vertical rate   feet per minute                                       *)
(*   latitude/longitude  1/CoordScale degree                               *)
(* An optional argument is None (the empty tuple) or Some(v) (a 1-tuple).  *)
(***************************************************************************)
EXTENDS Integers, Sequences, FiniteSets, TLC

VARIABLES
    NL_LATS,    \* module-level list of latitude breakpoints (line 93)
    NL_VALS,    \* module-level list of zone counts (line 94)
    pc,         \* per caller thread: position inside the public operation
    call,       \* per caller thread: arguments and locals of the call in progress
    heap,       \* the bytearrays allocated so far, by reference
    returned,   \* the results handed back to callers, oldest first
    args,       \* argument of a directly applied helper function
    result      \* its return value

vars == <<NL_LATS, NL_VALS, pc, call, heap, returned, args, result>>

None == << >>
Some(v) == <<v>>
IsNone(x) == x = << >>
Val(x) == x[1]

DF18 == "DF18"
DF18ANON == "DF18ANON"
DF18TRACK == "DF18TRACK"

(***************************************************************************)
(* Python integer operators on the values the code applies them to.        *)
(***************************************************************************)
RECURSIVE BitAnd(_, _)
BitAnd(a, b) ==
    IF a = 0 \/ b = 0 THEN 0
    ELSE (a % 2) * (b % 2) + 2 * BitAnd(a \div 2, b \div 2)

RECURSIVE BitOr(_, _)
BitOr(a, b) ==
    IF a = 0 THEN b
    ELSE IF b = 0 THEN a
    ELSE ((a % 2) + (b % 2) - (a % 2) * (b % 2)) + 2 * BitOr(a \div 2, b \div 2)

Shl(a, n) == a * 2^n
Shr(a, n) == a \div 2^n

Abs(x) == IF x < 0 THEN -x ELSE x

\* int(n / d) for d > 0: Python's int() truncates toward zero.
TruncDiv(n, d) == IF n >= 0 THEN n \div d ELSE -((-n) \div d)

(***************************************************************************)
(* The CPR NL() lookup table, lines 31-91.  A breakpoint d.ffffffff is     *)
(* held as <<d, ffffffff>> (whole degrees, 1e-8 degrees).                  *)
(***************************************************************************)
NL_TABLE_LATS ==
  << <<10, 47047130>>, <<14, 82817437>>, <<18, 18626357>>, <<21, 2939493>>,
     <<23, 54504487>>, <<25, 82924707>>, <<27, 93898710>>, <<29, 91135686>>,
     <<31, 77209708>>, <<33, 53993436>>, <<35, 22899598>>, <<36, 85025108>>,
     <<38, 41241892>>, <<39, 92256684>>, <<41, 38651832>>, <<42, 80914012>>,
     <<44, 19454951>>, <<45, 54626723>>, <<46, 86733252>>, <<48, 16039128>>,
     <<49, 42776439>>, <<50, 67150166>>, <<51, 89342469>>, <<53, 9516153>>,
     <<54, 27817472>>, <<55, 44378444>>, <<56, 59318756>>, <<57, 72747354>>,
     <<58, 84763776>>, <<59, 95459277>>, <<61, 4917774>>, <<62, 13216659>>,
     <<63, 20427479>>, <<64, 26616523>>, <<65, 31845310>>, <<66, 36171008>>,
     <<67, 39646774>>, <<68, 42322022>>, <<69, 44242631>>, <<70, 45451075>>,
     <<71, 45986473>>, <<72, 45884545>>, <<73, 45177442>>, <<74, 43893416>>,
     <<75, 42056257>>, <<76, 39684391>>, <<77, 36789461>>, <<78, 33374083>>,
     <<79, 29428225>>, <<80, 24923213>>, <<81, 19801349>>, <<82, 13956981>>,
     <<83, 7199445>>, <<83, 99173563>>, <<84, 89166191>>, <<85, 75541621>>,
     <<86, 53536998>>, <<87, 0>>, <<90, 0>> >>

\* The zone count of row i is 60 - i: 59 for the first row down to 1.
NL_TABLE_VALS == [i \in 1..Len(NL_TABLE_LATS) |-> 60 - i]

(***************************************************************************)
(* Scalar field encoders, lines 129-172.                                   *)
(***************************************************************************)
\* Mutant of AltitudeIndex: the index is not clamped.
AltitudeIndexNoClamp(feet) == TruncDiv(feet + 2025, 50)

\* index of _encode_altitude (lines 133-137); feet in half feet.
AltitudeIndex(feet) ==
    LET index == TruncDiv(feet + 2025, 50)
    IN  IF index < 0 THEN 0
        ELSE IF index > 2047 THEN 2047
        ELSE index

\* Mutant of _encode_altitude: the Q bit is appended below the index instead
\* of being set between its upper 7 and lower 4 bits.
EncodeAltitudeAppendQ(feet) ==
    IF IsNone(feet) THEN 0
    ELSE BitOr(Shl(AltitudeIndex(Val(feet)), 1), 1)

_encode_altitude(feet) ==
    IF IsNone(feet) THEN 0
    ELSE LET index == AltitudeIndex(Val(feet))
         IN  BitOr(BitOr(Shl(BitAnd(index, 2032), 1), 16), BitAnd(index, 15))

\* Mutant of _encode_velocity: the value is not clamped to 1023.
EncodeVelocityNoClamp(knots, supersonic) ==
    IF IsNone(knots) THEN 0
    ELSE LET sign == IF Val(knots) < 0 THEN 1024 ELSE 0
             mag == IF Val(knots) < 0 THEN -Val(knots) ELSE Val(knots)
             value == IF supersonic THEN TruncDiv(mag + 12, 8)
                                    ELSE TruncDiv(mag + 3, 2)
         IN  BitOr(value, sign)

\* knots in half knots: int(knots + 1.5) = (h + 3) / 2 truncated,
\* int(knots / 4 + 1.5) = (h + 12) / 8 truncated.
_encode_velocity(knots, supersonic) ==
    IF IsNone(knots) THEN 0
    ELSE LET sign == IF Val(knots) < 0 THEN 1024 ELSE 0
             mag == IF Val(knots) < 0 THEN -Val(knots) ELSE Val(knots)
             raw == IF supersonic THEN TruncDiv(mag + 12, 8)
                                  ELSE TruncDiv(mag + 3, 2)
             value == IF raw > 1023 THEN 1023 ELSE raw
         IN  BitOr(value, sign)

\* fpm in feet per minute: int(fpm / 64 + 1.5) = (fpm + 96) / 64 truncated.
_encode_vrate(fpm) ==
    IF IsNone(fpm) THEN 0
    ELSE LET sign == IF Val(fpm) < 0 THEN 512 ELSE 0
             mag == IF Val(fpm) < 0 THEN -Val(fpm) ELSE Val(fpm)
             raw == TruncDiv(mag + 96, 64)
             value == IF raw > 511 THEN 511 ELSE raw
         IN  BitOr(value, sign)

(***************************************************************************)
(* CPR position encoder, lines 97-126.  A latitude handed to _cpr_nl is a  *)
(* rational <<num, den>> of degrees, den > 0.                              *)
(***************************************************************************)
CoordScale == 10^5

\* One step of the decimal expansion of rem / den: two more digits.
DecStep(st, den) ==
    [digits |-> st.digits * 100 + (st.rem * 100) \div den,
     rem    |-> (st.rem * 100) % den]

\* num / den >= 0 as <<whole degrees, 1e-8 degrees (truncated), inexact>>.
Dec8(num, den) ==
    LET s0 == [digits |-> 0, rem |-> num % den]
        s4 == DecStep(DecStep(DecStep(DecStep(s0, den), den), den), den)
    IN  <<num \div den, s4.digits, s4.rem # 0>>

\* a breakpoint of the table is < x (x as given by Dec8)
BreakpointLess(bp, x) ==
    \/ bp[1] < x[1]
    \/ bp[1] = x[1] /\ bp[2] < x[2]
    \/ bp[1] = x[1] /\ bp[2] = x[2] /\ x[3]

\* bisect.bisect_left(a, x, lo, hi), 0-based like the library.
RECURSIVE bisect_left(_, _, _, _)
bisect_left(a, x, lo, hi) ==
    IF lo < hi
    THEN LET mid == (lo + hi) \div 2
         IN  IF BreakpointLess(a[mid + 1], x)
             THEN bisect_left(a, x, mid + 1, hi)
             ELSE bisect_left(a, x, lo, mid)
    ELSE lo

_cpr_nl(lat) ==
    LET alat == Dec8(Abs(lat[1]), lat[2])
        idx == bisect_left(NL_LATS, alat, 0, Len(NL_LATS))
    IN  IF idx >= Len(NL_VALS) THEN 1 ELSE NL_VALS[idx + 1]

\* Mutant of _cpr_n: the odd frame does not take one zone less.
CprNSameForOdd(lat, odd) == _cpr_nl(lat)

\* Mutant of _cpr_n: the zone count is not floored at 1.
CprNNoFloor(lat, odd) == _cpr_nl(lat) - (IF odd THEN 1 ELSE 0)

_cpr_n(lat, odd) ==
    LET nl == _cpr_nl(lat) - (IF odd THEN 1 ELSE 0)
    IN  IF nl < 1 THEN 1 ELSE nl

\* math.fmod: the remainder takes the sign of value.
fmod(value, modulus) ==
    IF value >= 0 THEN value % modulus ELSE -((-value) % modulus)

_cpr_mod(value, modulus) ==
    LET remainder == fmod(value, modulus)
    IN  IF remainder < 0 THEN remainder + modulus ELSE remainder

\* <<q, rem>> with q = floor(2^k * r / m), rem = (2^k * r) mod m, for 0 <= r < m.
RECURSIVE MulPow2Div(_, _, _)
MulPow2Div(r, m, k) ==
    IF k = 0 THEN <<0, r>>
    ELSE LET p == MulPow2Div(r, m, k - 1)
             twice == 2 * p[2]
         IN  IF twice >= m THEN <<2 * p[1] + 1, twice - m>>
                           ELSE <<2 * p[1], twice>>

\* int(math.floor(nb * (r / m) + 0.5)) with nb = 1 << 17, for 0 <= r < m.
Quantize(r, m) ==
    LET p == MulPow2Div(r, m, 17)
    IN  IF 2 * p[2] >= m THEN p[1] + 1 ELSE p[1]

\* _cpr_encode(lat, lon, odd): lat, lon in 1/CoordScale degree.
\* dlat = 360 / zones, so lat / dlat = lat * zones / (360 * CoordScale).
_cpr_encode_locals(lat, lon, odd) ==
    LET nb    == 2^17
        zones == IF odd THEN 59 ELSE 60
        turn  == 360 * CoordScale
        yz    == Quantize(_cpr_mod(lat * zones, turn), turn)
        rlat  == <<360 * (yz + nb * ((lat * zones) \div turn)), zones * nb>>
        n     == _cpr_n(rlat, odd)
        xz    == Quantize(_cpr_mod(lon * n, turn), turn)
    IN  [yz |-> yz, xz |-> xz, rlat |-> rlat, n |-> n]

_cpr_encode(lat, lon, odd) ==
    LET e == _cpr_encode_locals(lat, lon, odd)
    IN  <<BitAnd(e.yz, 131071), BitAnd(e.xz, 131071)>>

(***************************************************************************)
(* Checksum sealer and frame assembler, lines 175-253.  A frame is a       *)
(* tuple of 14 bytes; byte i of the code is element i + 1.                 *)
(***************************************************************************)
\* modes.crc.parity: an external pure function of the 11 leading bytes into
\* 24 bits.  Its polynomial is defined outside beastframes.py; the model uses
\* a stand-in that depends on every byte and on the byte order.
RECURSIVE modes_crc_parity(_)
modes_crc_parity(bytes) ==
    IF bytes = << >> THEN 0
    ELSE (modes_crc_parity(SubSeq(bytes, 1, Len(bytes) - 1)) * 33 + bytes[Len(bytes)] + 1) % 2^24

\* Mutant of _apply_crc: the checksum taken over ten bytes instead of eleven.
ApplyCrcShort(frame) ==
    LET parity == modes_crc_parity(SubSeq(frame, 1, 10))
    IN  [frame EXCEPT ![12] = BitAnd(Shr(parity, 16), 255),
                      ![13] = BitAnd(Shr(parity, 8), 255),
                      ![14] = BitAnd(parity, 255)]

_apply_crc(frame) ==
    LET parity == modes_crc_parity(SubSeq(frame, 1, 11))
    IN  [frame EXCEPT ![12] = BitAnd(Shr(parity, 16), 255),
                      ![13] = BitAnd(Shr(parity, 8), 255),
                      ![14] = BitAnd(parity, 255)]

\* Mutant of _make_frame_prefix: an unknown variant falls back to DF18.
MakeFramePrefixDefault(df) ==
    IF df = DF18ANON THEN [raised |-> FALSE, prefix |-> BitOr(Shl(18, 3), 5), imf |-> 0]
    ELSE IF df = DF18TRACK THEN [raised |-> FALSE, prefix |-> BitOr(Shl(18, 3), 2), imf |-> 1]
    ELSE [raised |-> FALSE, prefix |-> BitOr(Shl(18, 3), 2), imf |-> 0]

\* Mutant of _make_frame_prefix: DF18ANON takes the capability code of DF18.
MakeFramePrefixAnon2(df) ==
    IF df = DF18 THEN [raised |-> FALSE, prefix |-> BitOr(Shl(18, 3), 2), imf |-> 0]
    ELSE IF df = DF18ANON THEN [raised |-> FALSE, prefix |-> BitOr(Shl(18, 3), 2), imf |-> 0]
    ELSE IF df = DF18TRACK THEN [raised |-> FALSE, prefix |-> BitOr(Shl(18, 3), 2), imf |-> 1]
    ELSE [raised |-> TRUE, prefix |-> 0, imf |-> 0]

\* _make_frame_prefix: (prefix, imf), or ValueError raised.
_make_frame_prefix(df) ==
    IF df = DF18 THEN [raised |-> FALSE, prefix |-> BitOr(Shl(18, 3), 2), imf |-> 0]
    ELSE IF df = DF18ANON THEN [raised |-> FALSE, prefix |-> BitOr(Shl(18, 3), 5), imf |-> 0]
    ELSE IF df = DF18TRACK THEN [raised |-> FALSE, prefix |-> BitOr(Shl(18, 3), 2), imf |-> 1]
    ELSE [raised |-> TRUE, prefix |-> 0, imf |-> 0]

\* bytearray(14)
NewFrame == [i \in 1..14 |-> 0]

\* The work of one frame: what _make_position_frame is called with, or the
\* encoded fields of make_velocity_frame.
PositionJob(metype, elat, elon, ealt, oddflag) ==
    [kind |-> "position", metype |-> metype, elat |-> elat, elon |-> elon,
     ealt |-> ealt, oddflag |-> oddflag,
     e_ns |-> 0, e_ew |-> 0, e_vr |-> 0, supersonic |-> FALSE]

VelocityJob(e_ns, e_ew, e_vr, supersonic) ==
    [kind |-> "velocity", metype |-> 19, elat |-> 0, elon |-> 0,
     ealt |-> 0, oddflag |-> FALSE,
     e_ns |-> e_ns, e_ew |-> e_ew, e_vr |-> e_vr, supersonic |-> supersonic]

\* Mutant of PositionFill: the parity flag set in bit 0x08 instead of 0x04.
PositionFillParityBit(frame, prefix, imf, addr, job) ==
    LET b6a == Shl(BitAnd(job.ealt, 15), 4)
        b6b == IF job.oddflag THEN BitOr(b6a, 8) ELSE b6a
        b6  == BitOr(b6b, BitAnd(Shr(job.elat, 15), 3))
        b8a == Shl(BitAnd(job.elat, 127), 1)
        b8  == BitOr(b8a, BitAnd(Shr(job.elon, 16), 1))
    IN  [frame EXCEPT ![1] = prefix,
                      ![2] = BitAnd(Shr(addr, 16), 255),
                      ![3] = BitAnd(Shr(addr, 8), 255),
                      ![4] = BitAnd(addr, 255),
                      ![5] = BitOr(Shl(job.metype, 3), imf),
                      ![6] = BitAnd(Shr(job.ealt, 4), 255),
                      ![7] = b6,
                      ![8] = BitAnd(Shr(job.elat, 7), 255),
                      ![9] = b8,
                      ![10] = BitAnd(Shr(job.elon, 8), 255),
                      ![11] = BitAnd(job.elon, 255)]

\* lines 211-225: bytes 0..10 of a position frame written into frame
PositionFill(frame, prefix, imf, addr, job) ==
    LET b6a == Shl(BitAnd(job.ealt, 15), 4)
        b6b == IF job.oddflag THEN BitOr(b6a, 4) ELSE b6a
        b6  == BitOr(b6b, BitAnd(Shr(job.elat, 15), 3))
        b8a == Shl(BitAnd(job.elat, 127), 1)
        b8  == BitOr(b8a, BitAnd(Shr(job.elon, 16), 1))
    IN  [frame EXCEPT ![1] = prefix,
                      ![2] = BitAnd(Shr(addr, 16), 255),
                      ![3] = BitAnd(Shr(addr, 8), 255),
                      ![4] = BitAnd(addr, 255),
                      ![5] = BitOr(Shl(job.metype, 3), imf),
                      ![6] = BitAnd(Shr(job.ealt, 4), 255),
                      ![7] = b6,
                      ![8] = BitAnd(Shr(job.elat, 7), 255),
                      ![9] = b8,
                      ![10] = BitAnd(Shr(job.elon, 8), 255),
                      ![11] = BitAnd(job.elon, 255)]

\* Mutant of VelocityFill: byte 8 takes the vertical rate from bit 5 up
\* instead of from bit 6 up, so bit 5 is packed twice and bit 9 is lost.
VelocityFillRateShift(frame, prefix, imf, addr, job) ==
    [frame EXCEPT ![1] = prefix,
                  ![2] = BitAnd(Shr(addr, 16), 255),
                  ![3] = BitAnd(Shr(addr, 8), 255),
                  ![4] = BitAnd(addr, 255),
                  ![5] = BitOr(Shl(19, 3), IF job.supersonic THEN 2 ELSE 1),
                  ![6] = BitOr(Shl(imf, 7), BitAnd(Shr(job.e_ew, 8), 7)),
                  ![7] = BitAnd(job.e_ew, 255),
                  ![8] = BitAnd(Shr(job.e_ns, 3), 255),
                  ![9] = BitOr(BitOr(Shl(BitAnd(job.e_ns, 7), 5), 16),
                               BitAnd(Shr(job.e_vr, 5), 15)),
                  ![10] = Shl(BitAnd(job.e_vr, 63), 2),
                  ![11] = 0]

\* lines 242-252: bytes 0..10 of a velocity frame written into frame
VelocityFill(frame, prefix, imf, addr, job) ==
    [frame EXCEPT ![1] = prefix,
                  ![2] = BitAnd(Shr(addr, 16), 255),
                  ![3] = BitAnd(Shr(addr, 8), 255),
                  ![4] = BitAnd(addr, 255),
                  ![5] = BitOr(Shl(19, 3), IF job.supersonic THEN 2 ELSE 1),
                  ![6] = BitOr(Shl(imf, 7), BitAnd(Shr(job.e_ew, 8), 7)),
                  ![7] = BitAnd(job.e_ew, 255),
                  ![8] = BitAnd(Shr(job.e_ns, 3), 255),
                  ![9] = BitOr(BitOr(Shl(BitAnd(job.e_ns, 7), 5), 16),
                               BitAnd(Shr(job.e_vr, 6), 15)),
                  ![10] = Shl(BitAnd(job.e_vr, 63), 2),
                  ![11] = 0]

FillFrame(frame, prefix, imf, addr, job) ==
    IF job.kind = "position" THEN PositionFill(frame, prefix, imf, addr, job)
    ELSE VelocityFill(frame, prefix, imf, addr, job)

\* line 235: any(v > 1000 for v in velocities), over the components present
\* Mutant of Supersonic: only the north-south component is looked at.
SupersonicNsOnly(nsvel_knots, ewvel_knots) ==
    ~IsNone(nsvel_knots) /\ Abs(Val(nsvel_knots)) > 2000

Supersonic(nsvel_knots, ewvel_knots) ==
    \/ ~IsNone(nsvel_knots) /\ Abs(Val(nsvel_knots)) > 2000
    \/ ~IsNone(ewvel_knots) /\ Abs(Val(ewvel_knots)) > 2000

\* Mutant of PositionPairJobs: message type 17 instead of 18.
PositionPairJobsType17(lat, lon, altitude_ft) ==
    LET ealt == _encode_altitude(altitude_ft)
        even == _cpr_encode(lat, lon, FALSE)
        odd  == _cpr_encode(lat, lon, TRUE)
    IN  << PositionJob(17, even[1], even[2], ealt, FALSE),
           PositionJob(17, odd[1], odd[2], ealt, TRUE) >>

\* Mutant of VelocityJobs: the supersonic decision taken per component.
VelocityJobsPerComponent(nsvel_knots, ewvel_knots, vrate_fpm) ==
    LET supersonic == Supersonic(nsvel_knots, ewvel_knots)
    IN  << VelocityJob(_encode_velocity(nsvel_knots, Supersonic(nsvel_knots, None)),
                       _encode_velocity(ewvel_knots, Supersonic(None, ewvel_knots)),
                       _encode_vrate(vrate_fpm), supersonic) >>

\* The frame jobs of each public operation, in the order the code makes them.
PositionPairJobs(lat, lon, altitude_ft) ==
    LET ealt == _encode_altitude(altitude_ft)
        even == _cpr_encode(lat, lon, FALSE)
        odd  == _cpr_encode(lat, lon, TRUE)
    IN  << PositionJob(18, even[1], even[2], ealt, FALSE),
           PositionJob(18, odd[1], odd[2], ealt, TRUE) >>

AltitudeOnlyJobs(altitude_ft) ==
    << PositionJob(0, 0, 0, _encode_altitude(altitude_ft), FALSE) >>

VelocityJobs(nsvel_knots, ewvel_knots, vrate_fpm) ==
    LET supersonic == Supersonic(nsvel_knots, ewvel_knots)
    IN  << VelocityJob(_encode_velocity(nsvel_knots, supersonic),
                       _encode_velocity(ewvel_knots, supersonic),
                       _encode_vrate(vrate_fpm), supersonic) >>

(***************************************************************************)
(* The public operations as processes.  A caller thread t runs one call at *)
(* a time; a call makes its frame jobs one after the other, each through   *)
(* the statements of _make_position_frame (lines 209-226) or of            *)
(* make_velocity_frame (lines 240-253): resolve the variant, allocate the  *)
(* bytearray, write bytes 0..10, seal with the checksum.                   *)
(***************************************************************************)
NumThreads == 2
MaxCalls == 2

Threads == 1..NumThreads

Variants == {DF18, DF18ANON, DF18TRACK}

PositionPairInput(addr, lat, lon, altitude_ft, df) ==
    [op |-> "make_position_frame_pair", addr |-> addr, lat |-> lat, lon |-> lon,
     altitude_ft |-> altitude_ft, nsvel_knots |-> None, ewvel_knots |-> None,
     vrate_fpm |-> None, df |-> df]

AltitudeOnlyInput(addr, altitude_ft, df) ==
    [op |-> "make_altitude_only_frame", addr |-> addr, lat |-> 0, lon |-> 0,
     altitude_ft |-> altitude_ft, nsvel_knots |-> None, ewvel_knots |-> None,
     vrate_fpm |-> None, df |-> df]

VelocityInput(addr, nsvel_knots, ewvel_knots, vrate_fpm, df) ==
    [op |-> "make_velocity_frame", addr |-> addr, lat |-> 0, lon |-> 0,
     altitude_ft |-> None, nsvel_knots |-> nsvel_knots, ewvel_knots |-> ewvel_knots,
     vrate_fpm |-> vrate_fpm, df |-> df]

\* The argument evaluation and field encoding that precede the first frame.
JobsOf(in) ==
    IF in.op = "make_position_frame_pair"
        THEN PositionPairJobs(in.lat, in.lon, in.altitude_ft)
    ELSE IF in.op = "make_altitude_only_frame"
        THEN AltitudeOnlyJobs(in.altitude_ft)
    ELSE VelocityJobs(in.nsvel_knots, in.ewvel_knots, in.vrate_fpm)

\* One frame made with no other call in progress: the statements of
\* _make_position_frame, or of make_velocity_frame from line 240 on, in order.
MakeFrame(addr, job, df) ==
    LET p == _make_frame_prefix(df)
    IN  _apply_crc(FillFrame(NewFrame, p.prefix, p.imf, addr, job))

\* What a call returns when it runs alone: its frames, or none when it raises.
FramesOf(in) ==
    IF _make_frame_prefix(in.df).raised THEN << >>
    ELSE [i \in 1..Len(JobsOf(in)) |-> MakeFrame(in.addr, JobsOf(in)[i], in.df)]

NoInput == AltitudeOnlyInput(0, None, DF18)

NoCall == [in |-> NoInput, todo |-> << >>, frames |-> << >>,
           prefix |-> 0, imf |-> 0, frame |-> 0, allocs |-> 0]

\* Mutant of Allocate: one module-level buffer reused by every frame.
AllocateShared(h) == IF h = << >> THEN <<NewFrame>> ELSE h

\* frame = bytearray(14): a fresh object on the heap
Allocate(h) == Append(h, NewFrame)

\* A public operation is entered: lines 194-196, 205, 230-238.
Call(t, in) ==
    /\ pc[t] = "idle"
    /\ pc' = [pc EXCEPT ![t] = "build"]
    /\ call' = [call EXCEPT ![t] = [NoCall EXCEPT !.in = in, !.todo = JobsOf(in)]]
    /\ UNCHANGED <<NL_LATS, NL_VALS, heap, returned, args, result>>

\* prefix, imf = _make_frame_prefix(df): lines 209, 240; ValueError ends the call.
Resolve(t) ==
    /\ pc[t] = "build"
    /\ call[t].todo # << >>
    /\ LET p == _make_frame_prefix(call[t].in.df)
       IN  \/ /\ ~p.raised
              /\ pc' = [pc EXCEPT ![t] = "resolved"]
              /\ call' = [call EXCEPT ![t].prefix = p.prefix, ![t].imf = p.imf]
              /\ UNCHANGED returned
           \/ /\ p.raised
              /\ pc' = [pc EXCEPT ![t] = "idle"]
              /\ call' = [call EXCEPT ![t] = NoCall]
              /\ returned' = Append(returned,
                     [in |-> call[t].in, raised |-> TRUE, frames |-> << >>,
                      allocs |-> call[t].allocs, by |-> t])
    /\ UNCHANGED <<NL_LATS, NL_VALS, heap, args, result>>

\* frame = bytearray(14): lines 210, 241
Alloc(t) ==
    /\ pc[t] = "resolved"
    /\ heap' = Allocate(heap)
    /\ pc' = [pc EXCEPT ![t] = "allocated"]
    /\ call' = [call EXCEPT ![t].frame = Len(heap'), ![t].allocs = @ + 1]
    /\ UNCHANGED <<NL_LATS, NL_VALS, returned, args, result>>

\* frame[0] .. frame[10] = ...: lines 211-225, 242-252
Fill(t) ==
    /\ pc[t] = "allocated"
    /\ LET c == call[t]
       IN  heap' = [heap EXCEPT ![c.frame] =
                       FillFrame(@, c.prefix, c.imf, c.in.addr, Head(c.todo))]
    /\ pc' = [pc EXCEPT ![t] = "filled"]
    /\ UNCHANGED <<NL_LATS, NL_VALS, call, returned, args, result>>

\* return _apply_crc(frame): lines 226, 253
Seal(t) ==
    /\ pc[t] = "filled"
    /\ heap' = [heap EXCEPT ![call[t].frame] = _apply_crc(@)]
    /\ pc' = [pc EXCEPT ![t] = "build"]
    /\ call' = [call EXCEPT ![t].frames = Append(@, call[t].frame),
                            ![t].todo = Tail(@), ![t].frame = 0]
    /\ UNCHANGED <<NL_LATS, NL_VALS, returned, args, result>>

\* the public operation returns its frame(s): lines 198-201, 205, 253
Return(t) ==
    /\ pc[t] = "build"
    /\ call[t].todo = << >>
    /\ returned' = Append(returned,
           [in |-> call[t].in, raised |-> FALSE, frames |-> call[t].frames,
            allocs |-> call[t].allocs, by |-> t])
    /\ pc' = [pc EXCEPT ![t] = "idle"]
    /\ call' = [call EXCEPT ![t] = NoCall]
    /\ UNCHANGED <<NL_LATS, NL_VALS, heap, args, result>>

\* The callers drop the frames they own; the module holds no reference to
\* them, so the bytearrays are gone.
Release ==
    /\ returned # << >>
    /\ \A t \in Threads : pc[t] = "idle"
    /\ returned' = << >>
    /\ heap' = << >>
    /\ UNCHANGED <<NL_LATS, NL_VALS, pc, call, args, result>>

(***************************************************************************)
(* Spec: one caller, the three operations over a wide range of arguments.  *)
(***************************************************************************)
Addrs == {11259375, 28036591, 0}               \* 0xABCDEF, 0x1ABCDEF, 0
AnyVariant == Variants \cup {"DF17"}
Lats == {4700000, -3362062, 0}
Lons == {800000, -18000000, 17999999}
Altitudes == {None, Some(70000), Some(-2000)}
Knots == {None, Some(0), Some(500), Some(2000), Some(2001), Some(-2043), Some(-9000)}
Rates == {None, Some(-640), Some(40000)}

Inputs ==
    {PositionPairInput(a, la, lo, al, df) :
        a \in Addrs, la \in Lats, lo \in Lons, al \in Altitudes, df \in AnyVariant}
    \cup {AltitudeOnlyInput(a, al, df) : a \in Addrs, al \in Altitudes, df \in AnyVariant}
    \cup {VelocityInput(a, ns, ew, vr, df) :
        a \in Addrs, ns \in Knots, ew \in Knots, vr \in Rates, df \in AnyVariant}

\* The module as imported, no call in progress.
Imported ==
    /\ NL_LATS = NL_TABLE_LATS
    /\ NL_VALS = NL_TABLE_VALS
    /\ pc = [t \in Threads |-> "idle"]
    /\ call = [t \in Threads |-> NoCall]
    /\ heap = << >>
    /\ returned = << >>

Init ==
    /\ Imported
    /\ args = None
    /\ result = None

Next ==
    \/ \E in \in Inputs : returned = << >> /\ Call(1, in)
    \/ Resolve(1)
    \/ Alloc(1)
    \/ Fill(1)
    \/ Seal(1)
    \/ Return(1)
    \/ Release

Spec == Init /\ [][Next]_vars

(***************************************************************************)
(* SpecConc: several caller threads, their calls interleaved statement by  *)
(* statement; the callers keep every result.                               *)
(***************************************************************************)
SmallInputs ==
    { PositionPairInput(11259375, 4700000, 800000, Some(70000), DF18),
      VelocityInput(28036591, Some(500), Some(2001), Some(-640), DF18TRACK),
      AltitudeOnlyInput(0, None, DF18ANON),
      VelocityInput(0, None, None, None, "DF17") }

\* calls made so far, finished or in progress
CallsMade == Len(returned) + Cardinality({t \in Threads : pc[t] # "idle"})

NextConc ==
    \E t \in Threads :
        \/ \E in \in SmallInputs : CallsMade < MaxCalls /\ Call(t, in)
        \/ Resolve(t)
        \/ Alloc(t)
        \/ Fill(t)
        \/ Seal(t)
        \/ Return(t)

SpecConc == Init /\ [][NextConc]_vars

(***************************************************************************)
(* Helper functions applied directly to arguments drawn from a range.      *)
(* args is <<function name, arguments...>>, result is Some(return value).  *)
(***************************************************************************)
MaxKnots == 8400
AltBelow == 200
AltAbove == 4100
LatGridN == 29
LonGridN == 12

\* half knots up to MaxKnots / 2 kt either way, and two huge values
KnotsDomain ==
    {None} \cup {Some(h) : h \in -MaxKnots..MaxKnots}
           \cup {Some(2000000), Some(-2000000)}

InitVelocity ==
    /\ Imported
    /\ args \in {<<"_encode_velocity", k, s>> : k \in KnotsDomain, s \in BOOLEAN}
    /\ result = None

ApplyEncodeVelocity ==
    /\ args # None /\ args[1] = "_encode_velocity"
    /\ result = None
    /\ result' = Some(_encode_velocity(args[2], args[3]))
    /\ UNCHANGED <<NL_LATS, NL_VALS, pc, call, heap, returned, args>>

SpecVelocity == InitVelocity /\ [][ApplyEncodeVelocity]_vars

\* half feet in steps of 12.5 ft from -12.5 * AltBelow ft to 12.5 * AltAbove ft,
\* and two huge values
FeetDomain ==
    {None} \cup {Some(25 * m) : m \in -AltBelow..AltAbove}
           \cup {Some(2000000), Some(-2000000)}

InitAltitude ==
    /\ Imported
    /\ args \in {<<"_encode_altitude", f>> : f \in FeetDomain}
    /\ result = None

ApplyEncodeAltitude ==
    /\ args # None /\ args[1] = "_encode_altitude"
    /\ result = None
    /\ result' = Some(_encode_altitude(args[2]))
    /\ UNCHANGED <<NL_LATS, NL_VALS, pc, call, heap, returned, args>>

SpecAltitude == InitAltitude /\ [][ApplyEncodeAltitude]_vars

\* every half foot from -FineBelow / 2 ft to FineAbove / 2 ft
FineBelow == 2100
FineAbove == 102500

FeetFine == {Some(h) : h \in -FineBelow..FineAbove}

InitAltitudeFine ==
    /\ Imported
    /\ args \in {<<"_encode_altitude", f>> : f \in FeetFine}
    /\ result = None

SpecAltitudeFine == InitAltitudeFine /\ [][ApplyEncodeAltitude]_vars

\* latitudes inside (-87, 87): a grid that ends at +-86.99999, latitudes at
\* NL breakpoints, and the scenario of the specification
CprLats ==
    {k * (8699999 \div LatGridN) : k \in -LatGridN..LatGridN}
    \cup {8699999, -8699999, 4700000, 1047047, 1482817, -1818625, 8653537, -1}

\* longitudes in [-180, 180]
CprLons ==
    {k * (18000000 \div LonGridN) : k \in -LonGridN..LonGridN}
    \cup {18000000, -18000000, 17999999, 800000, -1}

InitCpr ==
    /\ Imported
    /\ args \in {<<"make_position_frame_pair",
                   PositionPairInput(11259375, la, lo, Some(70000), DF18)>> :
                        la \in CprLats, lo \in CprLons}
    /\ result = None

\* make_position_frame_pair run from entry to return with no other call
ApplyPositionFramePair ==
    /\ args # None /\ args[1] = "make_position_frame_pair"
    /\ result = None
    /\ result' = Some(FramesOf(args[2]))
    /\ UNCHANGED <<NL_LATS, NL_VALS, pc, call, heap, returned, args>>

SpecCpr == InitCpr /\ [][ApplyPositionFramePair]_vars

\* Components for make_velocity_frame in half knots: a grid over
\* [-MaxKnots, MaxKnots], and the values around the supersonic threshold
\* (1000 kt) and around the two saturation points (1021.5 kt and 4086 kt).
VelGridN == 30

FrameKnots ==
    {None} \cup {Some(k * (MaxKnots \div VelGridN)) : k \in -VelGridN..VelGridN}
           \cup {Some(sg * h) : sg \in {-1, 1},
                    h \in {1, 1999, 2000, 2001, 2043, 2044, 4000,
                           8163, 8164, 8171, 8172, 8173, 40000}}

InitVelocityFrame ==
    /\ Imported
    /\ args \in {<<"make_velocity_frame",
                   VelocityInput(11259375, ns, ew, Some(-640), DF18TRACK)>> :
                        ns \in FrameKnots, ew \in FrameKnots}
    /\ result = None

\* make_velocity_frame run from entry to return with no other call
ApplyVelocityFrame ==
    /\ args # None /\ args[1] = "make_velocity_frame"
    /\ result = None
    /\ result' = Some(FramesOf(args[2]))
    /\ UNCHANGED <<NL_LATS, NL_VALS, pc, call, heap, returned, args>>

SpecVelocityFrame == InitVelocityFrame /\ [][ApplyVelocityFrame]_vars

\* Arguments for the two frame assemblers that put every bit of every
\* field to 0 and to 1: 17-bit position codes with one bit set, all bits
\* set and alternating bits; 12-bit altitude fields; and velocities and
\* vertical rates whose codes are such patterns.
PackCodes17 == {0, 131071, 87381, 43690} \cup {2^k : k \in 0..16}
PackFew17 == {0, 131071, 87381}
PackAltitudes == {0, 4095, 1365, 2730, 15, 16, 2048}
PackTypes == {0, 18, 31}

\* magnitude codes with one bit set or alternating bits
PackMagnitudes == {341, 682} \cup {2^k : k \in 0..9}

\* half knots: magnitude code v without the supersonic scale is v - 1 kt
PackKnots ==
    {None, Some(8172), Some(-40000), Some(2002), Some(-5452)}
    \cup {Some(sg * (2 * v - 2)) : sg \in {-1, 1},
                                   v \in {w \in PackMagnitudes : w <= 1001}}

\* feet per minute: magnitude code v is 64 * (v - 1) fpm
PackRates ==
    {None, Some(32640), Some(-2000000)}
    \cup {Some(64 * (v - 1)) : v \in {w \in PackMagnitudes : w <= 511}}
    \cup {Some(-64 * 340), Some(-64 * 169)}

InitPacking ==
    /\ Imported
    /\ args \in
          {<<"_make_position_frame", a, PositionJob(ty, c[1], c[2], al, odd), df>> :
               a \in {11259375}, ty \in PackTypes,
               c \in (PackCodes17 \X PackFew17) \cup (PackFew17 \X PackCodes17),
               al \in PackAltitudes, odd \in BOOLEAN, df \in {DF18, DF18TRACK}}
          \cup {<<"make_velocity_frame", VelocityInput(11259375, ns, ew, vr, df)>> :
               ns \in PackKnots, ew \in PackKnots, vr \in PackRates,
               df \in {DF18ANON, DF18TRACK}}
    /\ result = None

\* _make_position_frame run from entry to return with no other call
ApplyMakePositionFrame ==
    /\ args # None /\ args[1] = "_make_position_frame"
    /\ result = None
    /\ result' = Some(<<MakeFrame(args[2], args[3], args[4])>>)
    /\ UNCHANGED <<NL_LATS, NL_VALS, pc, call, heap, returned, args>>

NextPacking == ApplyMakePositionFrame \/ ApplyVelocityFrame

SpecPacking == InitPacking /\ [][NextPacking]_vars

\* Latitudes for the zone lookup, as rationals of degrees: a grid over
\* [-ZoneLatMax, ZoneLatMax] degrees, which reaches beyond the poles, the two
\* 1e-5 degree neighbours of every breakpoint of the table on either
\* hemisphere, and the breakpoints 10.4704713, 87 and 90 themselves.
ZoneGridN == 50
ZoneLatMax == 100

ZoneLats ==
    {<<k * ((ZoneLatMax * CoordScale) \div ZoneGridN), CoordScale>> :
          k \in -ZoneGridN..ZoneGridN}
    \cup {<<sg * (NL_TABLE_LATS[i][1] * CoordScale
                    + NL_TABLE_LATS[i][2] \div 1000 + up), CoordScale>> :
              sg \in {-1, 1}, i \in 1..Len(NL_TABLE_LATS), up \in {0, 1}}
    \cup {<<104704713, 10^7>>, <<-104704713, 10^7>>,
          <<87 * CoordScale, CoordScale>>, <<-90 * CoordScale, CoordScale>>}

\* latitudes in 1/CoordScale degree handed to _cpr_encode, out of domain too
ZoneEncodeLats ==
    {k * ((ZoneLatMax * CoordScale) \div ZoneGridN) : k \in -ZoneGridN..ZoneGridN}
    \cup {8699999, 8700001, -8700001, 8999999, 9000000, -9000000, 9000001}

InitZones ==
    /\ Imported
    /\ args \in {<<"_cpr_nl", la>> : la \in ZoneLats}
              \cup {<<"_cpr_n", la, odd>> : la \in ZoneLats, odd \in BOOLEAN}
              \cup {<<"_cpr_encode", la, lo, odd>> :
                        la \in ZoneEncodeLats, lo \in {800000, -17999999},
                        odd \in BOOLEAN}
    /\ result = None

ApplyCprNl ==
    /\ args # None /\ args[1] = "_cpr_nl"
    /\ result = None
    /\ result' = Some(_cpr_nl(args[2]))
    /\ UNCHANGED <<NL_LATS, NL_VALS, pc, call, heap, returned, args>>

ApplyCprN ==
    /\ args # None /\ args[1] = "_cpr_n"
    /\ result = None
    /\ result' = Some(_cpr_n(args[2], args[3]))
    /\ UNCHANGED <<NL_LATS, NL_VALS, pc, call, heap, returned, args>>

\* _cpr_encode with the longitude zone count it divides by
ApplyCprEncode ==
    /\ args # None /\ args[1] = "_cpr_encode"
    /\ result = None
    /\ result' = Some([codes |-> _cpr_encode(args[2], args[3], args[4]),
                       n |-> _cpr_encode_locals(args[2], args[3], args[4]).n])
    /\ UNCHANGED <<NL_LATS, NL_VALS, pc, call, heap, returned, args>>

NextZones == ApplyCprNl \/ ApplyCprN \/ ApplyCprEncode

SpecZones == InitZones /\ [][NextZones]_vars

(***************************************************************************)
(* Reading returned frames.                                                *)
(***************************************************************************)
\* the frames of the k-th returned result, as they are on the heap now
RetFrames(k) == [i \in 1..Len(returned[k].frames) |-> heap[returned[k].frames[i]]]

Results == 1..Len(returned)

IsByte(b) == b \in 0..255

Trailer(f) == f[12] * 65536 + f[13] * 256 + f[14]

Sealed(f) ==
    /\ Len(f) = 14
    /\ \A i \in 1..14 : IsByte(f[i])
    /\ Trailer(f) = modes_crc_parity(SubSeq(f, 1, 11))

ImfOf(df) == IF df = DF18TRACK THEN 1 ELSE 0

\* C1: every frame returned by make_position_frame_pair,
\* make_altitude_only_frame or make_velocity_frame is exactly 14 bytes long
\* and its bytes 11, 12, 13 are the big-endian 24-bit checksum of that same
\* frame's bytes 0-10.
C1_ChecksumSealed ==
    \A k \in Results : \A i \in 1..Len(returned[k].frames) : Sealed(RetFrames(k)[i])

C1_Witness ==
    \E k \in Results :
        /\ returned[k].in.op = "make_position_frame_pair"
        /\ Len(returned[k].frames) = 2
        /\ Trailer(RetFrames(k)[2]) > 65536

\* The payload part of C2: the two frames of a pair agree on bytes 0-5 and
\* on byte 6 outside the parity bit (0x04) and the two latitude bits (0x03),
\* and the parity bit is 0 in the first frame and 1 in the second.
PairPayloadAgrees(e, o) ==
    /\ Len(e) = 14 /\ Len(o) = 14
    /\ \A i \in 1..6 : e[i] = o[i]
    /\ BitAnd(e[7], 248) = BitAnd(o[7], 248)
    /\ BitAnd(e[7], 4) = 0
    /\ BitAnd(o[7], 4) = 4

IsPair(k) ==
    /\ returned[k].in.op = "make_position_frame_pair"
    /\ ~returned[k].raised

\* C2 as stated: the two frames of make_position_frame_pair differ only in
\* the CPR-parity bit and in the latitude and longitude code fields;
\* everything else, the checksum bytes 11-13 included, is the same.
C2_Original ==
    \A k \in Results : IsPair(k) =>
        /\ Len(RetFrames(k)) = 2
        /\ PairPayloadAgrees(RetFrames(k)[1], RetFrames(k)[2])
        /\ \A i \in 12..14 : RetFrames(k)[1][i] = RetFrames(k)[2][i]

\* C2 amended: the two frames of make_position_frame_pair differ only in
\* the CPR-parity bit, in the latitude and longitude code fields, and in
\* the checksum bytes 11-13, which in each frame are the checksum of that
\* frame's own bytes 0-10.
C2_PairDiffers ==
    \A k \in Results : IsPair(k) =>
        /\ Len(RetFrames(k)) = 2
        /\ PairPayloadAgrees(RetFrames(k)[1], RetFrames(k)[2])
        /\ Sealed(RetFrames(k)[1])
        /\ Sealed(RetFrames(k)[2])

C2_Witness ==
    \E k \in Results :
        /\ IsPair(k)
        /\ returned[k].in.lat = 4700000
        /\ ~IsNone(returned[k].in.altitude_ft)
        /\ RetFrames(k)[1][8] # RetFrames(k)[2][8]
        /\ Trailer(RetFrames(k)[1]) # Trailer(RetFrames(k)[2])

\* byte 4 of every frame of the k-th result is (type << 3) | imf
Byte4Is(k, type) ==
    \A i \in 1..Len(returned[k].frames) :
        RetFrames(k)[i][5] = type * 8 + ImfOf(returned[k].in.df)

IsAltitudeOnly(k) ==
    /\ returned[k].in.op = "make_altitude_only_frame"
    /\ ~returned[k].raised

\* C3 as stated: byte 4 of a position frame is (type << 3) | imf with type
\* 17 for each frame of make_position_frame_pair and 0 for the frame of
\* make_altitude_only_frame.
C3_Original ==
    \A k \in Results :
        /\ IsPair(k) => Byte4Is(k, 17)
        /\ IsAltitudeOnly(k) => Byte4Is(k, 0)

\* C3 amended: byte 4 of a position frame is (type << 3) | imf with type 18
\* for each frame of make_position_frame_pair and 0 for the frame of
\* make_altitude_only_frame, imf being the IMF bit of the variant.
C3_TypeByte ==
    \A k \in Results :
        /\ IsPair(k) => Len(returned[k].frames) = 2 /\ Byte4Is(k, 18)
        /\ IsAltitudeOnly(k) => Len(returned[k].frames) = 1 /\ Byte4Is(k, 0)

C3_Witness ==
    \E k \in Results :
        /\ IsPair(k)
        /\ returned[k].in.df = DF18TRACK
        /\ RetFrames(k)[1][5] = 145
        /\ RetFrames(k)[2][5] = 145

\* C4: with a variant other than DF18, DF18ANON, DF18TRACK each public
\* operation ends in an error and returns no frame; the variant is resolved
\* before any bytearray is allocated or written, and no default variant
\* stands in for it.  Supported variants never raise.
C4_UnsupportedVariantRaises ==
    /\ \A k \in Results :
        /\ returned[k].raised <=> returned[k].in.df \notin Variants
        /\ returned[k].raised =>
              /\ returned[k].frames = << >>
              /\ returned[k].allocs = 0
              /\ heap = << >>
    /\ \A t \in Threads :
          (pc[t] # "idle" /\ call[t].in.df \notin Variants) =>
              /\ pc[t] = "build"
              /\ call[t].allocs = 0
              /\ call[t].frames = << >>
              /\ heap = << >>

C4_Witness ==
    \E k \in Results :
        /\ returned[k].in.op = "make_velocity_frame"
        /\ returned[k].in.df = "DF17"
        /\ returned[k].raised

IsVelocity(k) ==
    /\ returned[k].in.op = "make_velocity_frame"
    /\ ~returned[k].raised

\* a component is present and its magnitude exceeds 1000 kt (half knots)
Over1000(knots) == ~IsNone(knots) /\ (Val(knots) > 2000 \/ Val(knots) < -2000)

\* the magnitude code the claim expects of one component under one scale
ExpectedMagnitude(knots, scaled) ==
    IF IsNone(knots) THEN 0
    ELSE LET mag == IF Val(knots) < 0 THEN -Val(knots) ELSE Val(knots)
             q == IF scaled THEN (mag + 12) \div 8 ELSE (mag + 3) \div 2
         IN  IF q > 1023 THEN 1023 ELSE q

\* the 11-bit east-west and north-south fields of a velocity frame
EwField(f) == (f[6] % 8) * 256 + f[7]
NsField(f) == f[8] * 8 + f[9] \div 32

\* C5: in a frame of make_velocity_frame the subtype (low 3 bits of byte 4)
\* is 2 and both components are scaled by 1/4 before quantization iff at
\* least one present component exceeds 1000 kt in magnitude; otherwise the
\* subtype is 1 and neither is scaled.  Both always use the same scale.
C5_SupersonicPairwise ==
    \A k \in Results : IsVelocity(k) =>
        LET in == returned[k].in
            f == RetFrames(k)[1]
            sup == Over1000(in.nsvel_knots) \/ Over1000(in.ewvel_knots)
        IN  /\ f[5] % 8 = (IF sup THEN 2 ELSE 1)
            /\ f[5] \div 8 = 19
            /\ NsField(f) % 1024 = ExpectedMagnitude(in.nsvel_knots, sup)
            /\ EwField(f) % 1024 = ExpectedMagnitude(in.ewvel_knots, sup)

C5_Witness ==
    \E k \in Results :
        /\ IsVelocity(k)
        /\ returned[k].in.nsvel_knots = Some(500)
        /\ returned[k].in.ewvel_knots = Some(2001)
        /\ RetFrames(k)[1][5] % 8 = 2
        /\ NsField(RetFrames(k)[1]) = 64

\* the IMF bit as a frame carries it: byte 4 bit 0 of a position frame,
\* byte 5 bit 7 of a velocity frame
ImfBit(f) == IF f[5] \div 8 = 19 THEN f[6] \div 128 ELSE f[5] % 2

\* C8: byte 0 and the IMF bit depend only on the variant (DF18: (18<<3)|2
\* and 0, DF18TRACK: (18<<3)|2 and 1, DF18ANON: (18<<3)|5 and 0); bytes 1-3
\* are the low 24 bits of the address, big-endian (0xABCDEF gives AB CD EF),
\* and addresses equal modulo 2^24 give identical frames.
C8_PrefixAndAddress ==
    \A k \in Results : ~returned[k].raised =>
        LET in == returned[k].in
            low == in.addr % 2^24
        IN  /\ Len(returned[k].frames) >= 1
            /\ \A i \in 1..Len(returned[k].frames) :
                  LET f == RetFrames(k)[i]
                  IN  /\ f[1] = (IF in.df = DF18ANON THEN 149 ELSE 146)
                      /\ ImfBit(f) = (IF in.df = DF18TRACK THEN 1 ELSE 0)
                      /\ f[2] = low \div 65536
                      /\ f[3] = (low \div 256) % 256
                      /\ f[4] = low % 256
                      /\ in.addr = 11259375 => f[2] = 171 /\ f[3] = 205 /\ f[4] = 239
            /\ RetFrames(k) = FramesOf([in EXCEPT !.addr = low])
            /\ RetFrames(k) = FramesOf([in EXCEPT !.addr = low + 2^24])

C8_Witness ==
    \E k \in Results :
        /\ IsVelocity(k)
        /\ returned[k].in.addr = 28036591
        /\ returned[k].in.df = DF18TRACK
        /\ RetFrames(k)[1][2] = 171
        /\ ImfBit(RetFrames(k)[1]) = 1
\* every frame reference held by a finished or running call
HeldRefs ==
    [k \in Results |-> returned[k].frames]
        \o [t \in Threads |-> call[t].frames \o
                (IF call[t].frame = 0 THEN << >> ELSE <<call[t].frame>>)]

RECURSIVE Flatten(_)
Flatten(ss) == IF ss = << >> THEN << >> ELSE Head(ss) \o Flatten(Tail(ss))

NoAlias(refs) == \A i, j \in 1..Len(refs) : i # j => refs[i] # refs[j]

\* C9: the public operations are stateless.  However the calls of several
\* threads interleave, every result ever returned holds, now and at any
\* later time, exactly the frames its call returns when run alone on the
\* same arguments; no two calls share a frame; and the NL table is as it
\* was at import.
C9_Stateless ==
    /\ NL_LATS = NL_TABLE_LATS
    /\ NL_VALS = NL_TABLE_VALS
    /\ \A k \in Results :
          /\ RetFrames(k) = FramesOf(returned[k].in)
          /\ returned[k].raised <=> _make_frame_prefix(returned[k].in.df).raised
    /\ NoAlias(Flatten(HeldRefs))

\* a pair and a velocity frame whose construction overlapped (the velocity
\* frame was allocated between the two frames of the pair), both returned
C9_Witness ==
    \E k, l \in Results :
        /\ IsPair(k)
        /\ returned[k].frames = <<1, 3>>
        /\ IsVelocity(l)
        /\ returned[l].frames = <<2>>
        /\ returned[k].by # returned[l].by

Applied(fn) == args # None /\ args[1] = fn /\ result # None

\* C6: horizontal velocity saturation.  A component of magnitude 1021.5 kt
\* encoded without the supersonic scale gives the maximum magnitude code
\* 1023, and no magnitude, however large, gives a magnitude code above
\* 1023: the result stays within 11 bits, bit 10 being the sign alone, and
\* every magnitude from the saturation point up gives 1023.
C6_VelocitySaturation ==
    Applied("_encode_velocity") =>
        LET knots == args[2]
            supersonic == args[3]
            code == Val(result)
            mag == IF IsNone(knots) THEN 0 ELSE Abs(Val(knots))
        IN  /\ code \in 0..2047
            /\ code >= 1024 <=> (~IsNone(knots) /\ Val(knots) < 0)
            /\ (mag = 2043 /\ ~supersonic) => code % 1024 = 1023
            /\ (mag >= 2043 /\ ~supersonic) => code % 1024 = 1023
            /\ (mag >= 8172 /\ supersonic) => code % 1024 = 1023

C6_Witness ==
    /\ Applied("_encode_velocity")
    /\ args[2] = Some(2043)
    /\ args[3] = FALSE
    /\ Val(result) = 1023

\* the 11-bit index inside a 12-bit altitude field (the Q bit taken out)
IndexOfField(ealt) == (ealt \div 32) * 16 + (ealt % 16)

\* half feet that are whole multiples of 25 ft within [-1000, 50175] ft
InAltitudeRange(feet) == feet % 50 = 0 /\ feet >= -2000 /\ feet <= 100350

\* C7: over feet that are exact multiples of 25 within [-1000, 50175] the
\* altitude index strictly increases with feet; feet below that range give
\* index 0 and feet above it give index 0x7FF.
C7_AltitudeMonotone ==
    Applied("_encode_altitude") /\ ~IsNone(args[2]) =>
        LET feet == Val(args[2])
            index == IndexOfField(Val(result))
        IN  /\ index \in 0..2047
            /\ InAltitudeRange(feet) =>
                  \A m \in -40..2007 :
                      50 * m < feet =>
                          IndexOfField(_encode_altitude(Some(50 * m))) < index
            /\ feet < -2000 => index = 0
            /\ feet > 100350 => index = 2047

C7_Witness ==
    /\ Applied("_encode_altitude")
    /\ args[2] = Some(70000)
    /\ IndexOfField(Val(result)) = 1440

(***************************************************************************)
(* The global CPR decode of an even/odd pair of codes, as the standard     *)
(* defines it, in exact arithmetic.  Latitudes and longitudes are counted  *)
(* in quantization steps: one step is the zone size / 2^17.                *)
(***************************************************************************)
\* the 17-bit codes a position frame carries
LatCode(f) == (f[7] % 4) * 32768 + f[8] * 128 + f[9] \div 2
LonCode(f) == (f[9] % 2) * 65536 + f[10] * 256 + f[11]

\* floor(x + 1/2) for x = n / 2^17
RoundSteps(n) == (2 * n + 2^17) \div 2^18

\* a recovered latitude of x steps out of zones * 2^17 per turn, taken
\* into (-90, 90]: values from 270 degrees up lie south of the equator
SouthWrap(x, zones) ==
    IF 4 * x >= 3 * zones * 2^17 THEN x - zones * 2^17 ELSE x

GlobalDecode(latE, lonE, latO, lonO) ==
    LET j   == RoundSteps(59 * latE - 60 * latO)
        xE  == SouthWrap((j % 60) * 2^17 + latE, 60)
        xO  == SouthWrap((j % 59) * 2^17 + latO, 59)
        valid == 4 * Abs(xE) <= 60 * 2^17 /\ 4 * Abs(xO) <= 59 * 2^17
        nlE == IF valid THEN _cpr_nl(<<360 * xE, 60 * 2^17>>) ELSE 0
        nlO == IF valid THEN _cpr_nl(<<360 * xO, 59 * 2^17>>) ELSE 0
        nE  == IF nlE < 1 THEN 1 ELSE nlE
        nO  == IF nlE - 1 < 1 THEN 1 ELSE nlE - 1
        m   == RoundSteps(lonE * (nlE - 1) - lonO * nlE)
    IN  [ok |-> valid /\ nlE = nlO,
         latE |-> xE, latO |-> xO, nE |-> nE, nO |-> nO,
         lonE |-> (m % nE) * 2^17 + lonE,
         lonO |-> (m % nO) * 2^17 + lonO]

\* a coordinate of c / CoordScale degrees in steps of (360 / zones) / 2^17:
\* the whole steps below it, and what is left of the next one
InSteps(c, zones) ==
    LET turn == 360 * CoordScale
        w == c * zones
        p == MulPow2Div(w % turn, turn, 17)
    IN  [floor |-> (w \div turn) * 2^17 + p[1], rest |-> p[2], turn |-> turn]

\* x steps is within one step of the coordinate
LatWithinStep(x, c, zones) ==
    LET pos == InSteps(c, zones)
        d == x - pos.floor
    IN  d \in {0, 1} \/ (d = -1 /\ pos.rest = 0)

\* the same around the circle: longitudes are compared modulo 360 degrees
LonWithinStep(x, c, zones) ==
    LET pos == InSteps(c, zones)
        d == (x - pos.floor) % (zones * 2^17)
    IN  d \in {0, 1} \/ (d = zones * 2^17 - 1 /\ pos.rest = 0)

\* the latitude rounded to the nearest step of the lattice with this many
\* zones, as a rational of degrees
NearestLat(c, zones) ==
    LET pos == InSteps(c, zones)
        x == IF 2 * pos.rest >= pos.turn THEN pos.floor + 1 ELSE pos.floor
    IN  <<360 * x, zones * 2^17>>

\* Decoding the pair made for (lat, lon) succeeds and gives, for the even and
\* for the odd frame, a position within one step of (lat, lon) in each axis.
RoundTrips(in, frames) ==
    LET dec == GlobalDecode(LatCode(frames[1]), LonCode(frames[1]),
                            LatCode(frames[2]), LonCode(frames[2]))
    IN  /\ dec.ok
        /\ LatWithinStep(dec.latE, in.lat, 60)
        /\ LatWithinStep(dec.latO, in.lat, 59)
        /\ LonWithinStep(dec.lonE, in.lon, dec.nE)
        /\ LonWithinStep(dec.lonO, in.lon, dec.nO)

InCprDomain(in) ==
    /\ in.lat > -87 * CoordScale /\ in.lat < 87 * CoordScale
    /\ in.lon >= -180 * CoordScale /\ in.lon <= 180 * CoordScale

\* C10 as stated: for every latitude in (-87, 87) and longitude in
\* [-180, 180] the global decode of the codes carried by the two frames of
\* make_position_frame_pair recovers the coordinate within one quantization
\* step in each axis (longitude modulo 360).
C10_Original ==
    Applied("make_position_frame_pair") /\ InCprDomain(args[2]) =>
        RoundTrips(args[2], Val(result))

\* the latitude, rounded to the even lattice and rounded to the odd lattice,
\* lies in one and the same NL zone
SameNlZone(lat) == _cpr_nl(NearestLat(lat, 60)) = _cpr_nl(NearestLat(lat, 59))

\* C10 amended: for every latitude in (-87, 87) whose roundings to the even
\* and to the odd latitude lattice lie in the same NL zone, and every
\* longitude in [-180, 180], the global decode of the two frames' codes
\* recovers the coordinate within one quantization step in each axis
\* (longitude modulo 360).
C10_RoundTrip ==
    Applied("make_position_frame_pair") /\ InCprDomain(args[2])
            /\ SameNlZone(args[2].lat) =>
        RoundTrips(args[2], Val(result))

C10_Witness ==
    /\ Applied("make_position_frame_pair")
    /\ args[2].lat = 4700000
    /\ args[2].lon = 800000
    /\ LatCode(Val(result)[1]) = 109227
    /\ LonCode(Val(result)[2]) = 113596
    /\ RoundTrips(args[2], Val(result))

(***************************************************************************)
(* The altitude field: index and Q bit.                                    *)
(***************************************************************************)
\* the 12-bit field that carries index i around the Q bit
FieldOfIndex(i) == (i \div 16) * 32 + 16 + (i % 16)

ClampIndex(i) == IF i < 0 THEN 0 ELSE IF i > 2047 THEN 2047 ELSE i

\* i is an integer nearest to (feet + 1012.5) / 25, feet in half feet
NearestIndex(i, feet) == Abs(2 * (feet + 2025) - 100 * i) <= 50

\* C11 as stated: for every present altitude the result is the field of the
\* index round((feet + 1012.5) / 25) clamped to [0, 0x7FF], whichever way a
\* tie between two nearest integers is broken.
C11_Original ==
    Applied("_encode_altitude") /\ ~IsNone(args[2]) =>
        LET feet == Val(args[2])
            below == (feet + 2025) \div 50
        IN  \E i \in {below, below + 1} :
                /\ NearestIndex(i, feet)
                /\ Val(result) = FieldOfIndex(ClampIndex(i))

\* C11 amended: for every present altitude the result is the field of the
\* index (feet + 1012.5) / 25 with its fraction dropped (truncated towards
\* zero, not rounded to the nearest integer), clamped to [0, 0x7FF]; the
\* Q bit 0x010 is always set and lies between the upper 7 and the lower 4
\* index bits.
C11_AltitudeField ==
    Applied("_encode_altitude") /\ ~IsNone(args[2]) =>
        LET feet == Val(args[2])
            v == feet + 2025
            index == IF v < 0 THEN 0
                     ELSE IF v >= 50 * 2048 THEN 2047
                     ELSE CHOOSE i \in 0..2047 : 50 * i <= v /\ v < 50 * (i + 1)
            code == Val(result)
        IN  /\ code = FieldOfIndex(index)
            /\ (code \div 16) % 2 = 1
            /\ code \div 32 = index \div 16
            /\ code % 16 = index % 16

\* 10 ft: (10 + 1012.5) / 25 = 40.9 gives index 40, not 41
C11_Witness ==
    /\ Applied("_encode_altitude")
    /\ args[2] = Some(20)
    /\ Val(result) = FieldOfIndex(40)
    /\ Val(result) # FieldOfIndex(41)

(***************************************************************************)
(* The longitude zone count.                                               *)
(***************************************************************************)
\* breakpoint bp >= |lat| for a latitude whose denominator divides 10^8
AtLeast(bp, lat) ==
    LET a == Abs(lat[1])
        whole == a \div lat[2]
        frac8 == (a % lat[2]) * (10^8 \div lat[2])
    IN  bp[1] > whole \/ (bp[1] = whole /\ bp[2] >= frac8)

\* NL as the table defines it: the zone count of the first breakpoint that
\* is >= |lat|, or 1 when |lat| exceeds every breakpoint
FirstBreakpointNL(lat) ==
    LET rows == {i \in 1..Len(NL_TABLE_LATS) : AtLeast(NL_TABLE_LATS[i], lat)}
    IN  IF rows = {} THEN 1
        ELSE NL_TABLE_VALS[CHOOSE i \in rows : \A j \in rows : i <= j]

\* |lat| in 1e-7 degrees
Abs7(lat) == Abs(lat[1]) * (10^7 \div lat[2])

\* C12: the longitude zone count is never below 1.  For every latitude,
\* beyond 87 and beyond 90 degrees too, _cpr_nl returns the zone count of
\* the first table breakpoint >= |lat|, or 1 past the last breakpoint; that
\* count is in 1..59 and no latitude nearer the equator has a smaller one;
\* _cpr_n returns max(1, NL(lat) - (1 if odd else 0)); and the count
\* _cpr_encode divides by is at least 1, and is 1 beyond 87.0001 degrees
\* (within a quantization step of 87 the rounded latitude can be 87 itself).
C12_ZoneCountFloor ==
    /\ Applied("_cpr_nl") =>
          LET lat == args[2]
              nl == Val(result)
          IN  /\ nl = FirstBreakpointNL(lat)
              /\ nl \in 1..59
              /\ \A other \in ZoneLats :
                    Abs7(other) <= Abs7(lat) => _cpr_nl(other) >= nl
    /\ Applied("_cpr_n") =>
          LET lat == args[2]
              odd == args[3]
              n == Val(result)
              nl == FirstBreakpointNL(lat) - (IF odd THEN 1 ELSE 0)
          IN  /\ n >= 1
              /\ n = IF nl > 1 THEN nl ELSE 1
    /\ Applied("_cpr_encode") =>
          LET lat == args[2]
              odd == args[4]
              n == Val(result).n
          IN  /\ n \in 1..59
              /\ odd => n <= 58
              /\ Abs(lat) > 87 * CoordScale + 10 => n = 1

\* the odd frame at 88 degrees: NL is 1, one less would be 0, the count is 1
C12_Witness ==
    /\ Applied("_cpr_n")
    /\ args[2] = <<88 * CoordScale, CoordScale>>
    /\ args[3] = TRUE
    /\ FirstBreakpointNL(args[2]) = 1
    /\ Val(result) = 1

(***************************************************************************)
(* Saturation of the horizontal velocity inside a velocity frame.          *)
(***************************************************************************)
\* the component is present with a magnitude of at least 4086 kt
AtLeast4086(knots) == ~IsNone(knots) /\ Abs(Val(knots)) >= 8172

\* C13: a frame of make_velocity_frame with subtype 1 (subsonic) carries no
\* horizontal magnitude code above 1001; the saturated code 1023 appears
\* only in a frame with subtype 2 (supersonic), and there only for a
\* component whose magnitude is at least 4086 kt.
C13_SaturationOnlySupersonic ==
    Applied("make_velocity_frame") =>
        LET in == args[2]
            f == Val(result)[1]
            subtype == f[5] % 8
            ns == NsField(f) % 1024
            ew == EwField(f) % 1024
        IN  /\ subtype \in {1, 2}
            /\ subtype = 1 => ns <= 1001 /\ ew <= 1001
            /\ ns = 1023 => subtype = 2 /\ AtLeast4086(in.nsvel_knots)
            /\ ew = 1023 => subtype = 2 /\ AtLeast4086(in.ewvel_knots)

\* a supersonic frame carries 1023 for 4086 kt, next to a component of
\* 1021.5 kt that would saturate a subsonic frame and here encodes to 256
C13_Witness ==
    /\ Applied("make_velocity_frame")
    /\ args[2].nsvel_knots = Some(8172)
    /\ args[2].ewvel_knots = Some(2043)
    /\ Val(result)[1][5] % 8 = 2
    /\ NsField(Val(result)[1]) = 1023
    /\ EwField(Val(result)[1]) = 256

(***************************************************************************)
(* Reading the fields back out of bytes 4-10.                              *)
(***************************************************************************)
\* the 12-bit altitude field and the parity flag of a position frame
AltitudeField(f) == f[6] * 16 + f[7] \div 16
ParityFlag(f) == (f[7] \div 4) % 2 = 1

\* the 10-bit vertical rate field of a velocity frame
VrField(f) == (f[9] % 16) * 64 + f[10] \div 4

\* C14: field packing loses nothing and fields do not overlap.  Bytes 4-10
\* of a position frame give back the type code, the IMF bit, the 12-bit
\* altitude field, the parity flag and the 17-bit latitude and longitude
\* codes the assembler was called with; bytes 4-10 of a velocity frame
\* give back the subtype, the IMF bit, the 11-bit east-west and
\* north-south codes and the 10-bit vertical rate code.  Every other bit
\* of bytes 4-10 is constant: in a position frame bits 1-2 of byte 4 and
\* bit 0x08 of byte 6 are 0; in a velocity frame byte 4 has type 19, bits
\* 3-6 of byte 5 are 0, bit 0x10 of byte 8 is 1, the low two bits of byte 9
\* and byte 10 are 0.
C14_PackingLossless ==
    /\ Applied("_make_position_frame") =>
          LET job == args[3]
              f == Val(result)[1]
          IN  /\ \A i \in 5..11 : IsByte(f[i])
              /\ f[5] \div 8 = job.metype
              /\ f[5] % 2 = ImfOf(args[4])
              /\ (f[5] \div 2) % 4 = 0
              /\ AltitudeField(f) = job.ealt
              /\ ParityFlag(f) = job.oddflag
              /\ (f[7] \div 8) % 2 = 0
              /\ LatCode(f) = job.elat
              /\ LonCode(f) = job.elon
    /\ Applied("make_velocity_frame") =>
          LET in == args[2]
              f == Val(result)[1]
              sup == Over1000(in.nsvel_knots) \/ Over1000(in.ewvel_knots)
          IN  /\ \A i \in 5..11 : IsByte(f[i])
              /\ f[5] \div 8 = 19
              /\ f[5] % 8 = (IF sup THEN 2 ELSE 1)
              /\ f[6] \div 128 = ImfOf(in.df)
              /\ (f[6] \div 8) % 16 = 0
              /\ EwField(f) = _encode_velocity(in.ewvel_knots, sup)
              /\ NsField(f) = _encode_velocity(in.nsvel_knots, sup)
              /\ (f[9] \div 16) % 2 = 1
              /\ VrField(f) = _encode_vrate(in.vrate_fpm)
              /\ f[10] % 4 = 0
              /\ f[11] = 0

\* a velocity frame whose vertical rate code has bit 5 clear and bit 9 set
\* (-21760 fpm, code 0x200 + 341) around north-south code 682
C14_Witness ==
    /\ Applied("make_velocity_frame")
    /\ args[2].vrate_fpm = Some(-64 * 340)
    /\ args[2].nsvel_knots = Some(1362)
    /\ args[2].ewvel_knots = Some(-680)
    /\ VrField(Val(result)[1]) = 512 + 341
    /\ NsField(Val(result)[1]) = 682
    /\ EwField(Val(result)[1]) = 1024 + 341

============================================================================
